---- MODULE Spec2Model ----
(***************************************************************************)
(* Analysis orchestration of ahmadasakra/aimvise.                          *)
(*                                                                         *)
(* Two orchestrators live in the repository and both are modelled:         *)
(*   - the database-backed one: the routes of app/api/routes/analysis.py   *)
(*     (start_analysis, get_analysis_progress, cancel_analysis and the     *)
(*     background task run_repository_analysis) driving one                *)
(*     RepositoryAnalyzer per analysis row (specification Spec);           *)
(*   - the in-memory one: AnalysisService with its active_analyses dict    *)
(*     and one _run_comprehensive_analysis task per session                *)
(*     (specification SpecService).                                        *)
(* The score functions are pure and are explored over bounded inputs in    *)
(* specification SpecScores.  SpecLive is Spec with weak fairness on the   *)
(* steps a background task takes by itself; the return of git clone and of *)
(* the AI service is left to those collaborators.                          *)
(*                                                                         *)
(* Scheduling: every task is a coroutine.  A step of the model is the code *)
(* between two awaits of a task, or one whole request handler; every await *)
(* is taken as a point where other handlers and tasks may run (the rows    *)
(* live in a database shared by all server workers, so a request can be    *)
(* served between any two database accesses of a task).                    *)
(*                                                                         *)
(* Environment: the outcomes drawn nondeterministically are those the      *)
(* collaborators can produce as the code is written: git clone succeeds or *)
(* raises, an analyzer returns its result or its own {"error": ...}        *)
(* marker (every analyze() catches Exception), the final save commits or   *)
(* raises.  Status updates of the row and the removal of the temp          *)
(* directory are taken to succeed.                                         *)
(*                                                                         *)
(* Numbers: scores are fixed-point, in hundredths; weights and progress    *)
(* are in percent.                                                         *)
(***************************************************************************)
EXTENDS Integers, Sequences, FiniteSets, TLC

(***************************************************************************)
(* Bounds of the model                                                     *)
(***************************************************************************)
\* number of analyses started through POST /start (rows of the table)
MaxAnalyses == 1
\* number of collaborator results per analysis that are an {"error": ...}
\* marker or an empty dict instead of the collaborator's data
MaxStageErrors == 1

AnalysisIds == 1..MaxAnalyses

(***************************************************************************)
(* app/models/analysis.py                                                  *)
(***************************************************************************)
AnalysisStatus == {"pending", "running", "completed", "failed", "cancelled"}

AnalysisType ==
    {"quick", "standard", "comprehensive", "security_focused", "architecture_focused"}

\* None in a nullable column or returned score, a value otherwise
None == <<>>
Some(v) == <<v>>

\* a row of repository_analyses as start_analysis creates it
RepositoryAnalysis(type, config) ==
    [ status                |-> "pending",
      analysis_type         |-> type,
      analysis_config       |-> config,
      started_at            |-> FALSE,
      completed_at          |-> FALSE,
      error_log             |-> "",
      overall_quality_score |-> None,
      maintainability_score |-> None,
      security_score        |-> None,
      saved                 |-> FALSE ]

\* the include_* switches of AnalysisRequest that the pipeline reads
AnalysisConfig ==
    [ include_security : BOOLEAN,
      include_architecture : BOOLEAN,
      include_performance : BOOLEAN ]

(***************************************************************************)
(* Python values                                                           *)
(***************************************************************************)
\* a dict is a function whose DOMAIN is its key set; {} is the empty one
EmptyDict == [k \in {} |-> 0]

\* d.get(key, default)
Get(d, key, default) == IF key \in DOMAIN d THEN d[key] ELSE default

\* d[key] = value
Put(d, key, value) ==
    [k \in DOMAIN d \cup {key} |-> IF k = key THEN value ELSE d[k]]

\* bool(d) of a dict
Truthy(d) == DOMAIN d # {}

Min(a, b) == IF a <= b THEN a ELSE b
Max(a, b) == IF a >= b THEN a ELSE b

\* round(n / d) to an integer, ties to even, for n >= 0 and d > 0
RoundHalfEven(n, d) ==
    LET q == n \div d
        r == n % d
    IN  IF 2 * r < d THEN q
        ELSE IF 2 * r > d THEN q + 1
        ELSE IF q % 2 = 0 THEN q ELSE q + 1

\* the {"error": str(e)} dict every analyzer returns from its except branch
ErrorMarker == [k \in {"error"} |-> "error"]

(***************************************************************************)
(* RepositoryAnalyzer._calculate_overall_scores (1-6 scale, in hundredths) *)
(***************************************************************************)
ScoreMin == 100
ScoreMax == 600
\* scores.get(key, 3.0)
DefaultScore == 300
\* weights of the overall score, in percent
WeightCodeQuality == 30
WeightSecurity == 30
WeightArchitecture == 20
WeightDependencies == 20

ScoredKeys == {"code_quality", "security", "architecture", "dependencies"}

weights ==
    [k \in ScoredKeys |->
        CASE k = "code_quality" -> WeightCodeQuality
          [] k = "security" -> WeightSecurity
          [] k = "architecture" -> WeightArchitecture
          [] k = "dependencies" -> WeightDependencies]

\* Clamp without the upper end of the scale
ClampFromBelow(x) == Max(ScoreMin, x)

\* min(6.0, max(1.0, x))
Clamp(x) == Min(ScoreMax, Max(ScoreMin, x))

\* 6.0 - (avg_complexity - 5) * 0.5 and 6.0 - duplication_percentage * 0.2
CodeQualityScore(code_quality) ==
    LET complexity_score ==
            Clamp(ScoreMax - (Get(code_quality, "avg_complexity", 5) - 5) * 50)
        duplication_score ==
            Clamp(ScoreMax - Get(code_quality, "duplication_percentage", 10) * 20)
    IN  (complexity_score + duplication_score) \div 2

\* 6.0 - vuln_count * 0.5
SecurityScore(security) ==
    Clamp(ScoreMax - Get(security, "vulnerabilities_count", 0) * 50)

\* 4.0 + len(design_patterns) * 0.5 + len(violations) * -0.3
ArchitectureScore(architecture) ==
    Clamp(400 + Get(architecture, "design_patterns", 0) * 50
              - Get(architecture, "violations", 0) * 30)

\* 6.0 - outdated_count / max(total_count, 1) * 4.0
DependenciesScore(dependencies) ==
    Clamp(ScoreMax - (Get(dependencies, "outdated_count", 0) * 400)
                        \div Max(Get(dependencies, "total_count", 1), 1))

SubScore(key, result) ==
    CASE key = "code_quality" -> CodeQualityScore(result)
      [] key = "security" -> SecurityScore(result)
      [] key = "architecture" -> ArchitectureScore(result)
      [] key = "dependencies" -> DependenciesScore(result)

RECURSIVE SumOver(_, _)
SumOver(f, keys) ==
    IF keys = {} THEN 0
    ELSE LET k == CHOOSE x \in keys : TRUE
         IN  f[k] + SumOver(f, keys \ {k})

\* sum(scores.get(key, 3.0) * weight for key, weight in weights.items()), rounded
OverallScore(scores) ==
    RoundHalfEven(
        SumOver([k \in ScoredKeys |-> Get(scores, k, DefaultScore) * weights[k]],
                ScoredKeys),
        100)

\* the dict _calculate_overall_scores returns for self.results
CalculateOverallScores(results) ==
    LET present == {k \in ScoredKeys : Truthy(Get(results, k, EmptyDict))}
        scores == [k \in present |-> SubScore(k, results[k])]
    IN  IF Truthy(scores) THEN Put(scores, "overall", OverallScore(scores))
        ELSE scores

(***************************************************************************)
(* RepositoryAnalyzer: stages and the results its collaborators can return *)
(***************************************************************************)
\* self.stages: name and weight (in percent) in declaration order
stages ==
    << [name |-> "clone",        weight |-> 5],
       [name |-> "dependencies", weight |-> 15],
       [name |-> "code_quality", weight |-> 25],
       [name |-> "security",     weight |-> 20],
       [name |-> "architecture", weight |-> 15],
       [name |-> "performance",  weight |-> 10],
       [name |-> "build",        weight |-> 5],
       [name |-> "ai_insights",  weight |-> 5] >>

StageNames == {stages[n].name : n \in 1..Len(stages)}

\* stages run through "result = await func(*args)": coroutine functions
CoroutineStages == {"clone", "ai_insights"}

RECURSIVE SumWeights(_)
\* sum(s.weight for s in self.stages[:n]) * 100
SumWeights(n) == IF n = 0 THEN 0 ELSE stages[n].weight + SumWeights(n - 1)

\* what the function of a stage can return to _run_stage: the analyzer's
\* result dict (one representative per analyzer, with the keys that
\* _calculate_overall_scores reads) or its {"error": ...} marker
StageReturns(stage) ==
    CASE stage = "dependencies" ->
            {[outdated_count |-> 1, total_count |-> 2], ErrorMarker}
      [] stage = "code_quality" ->
            {[avg_complexity |-> 9, duplication_percentage |-> 5], ErrorMarker}
      [] stage = "security" ->
            {[vulnerabilities_count |-> 2], ErrorMarker}
      [] stage = "architecture" ->
            {[architecture_maturity |-> 1], ErrorMarker}
      [] stage = "performance" ->
            {[performance_score |-> 380]}
      [] stage = "build" ->
            {[build_score |-> 300], ErrorMarker}
      [] stage = "ai_insights" ->
            {[best_practices_score |-> 700], ErrorMarker}

\* which stage analyze_repository runs after `stage`, given the row's
\* analysis_type and analysis_config ("scores" after the last stage)
RECURSIVE StageAfter(_, _, _)
StageAfter(stage, type, config) ==
    LET Runs(s) ==
            CASE s = "code_quality" -> type \in {"standard", "comprehensive"}
              [] s = "security" -> config.include_security
              [] s = "architecture" -> config.include_architecture
              [] s = "performance" ->
                    config.include_performance /\ type = "comprehensive"
              [] OTHER -> TRUE
        next ==
            CASE stage = "clone" -> "dependencies"
              [] stage = "dependencies" -> "code_quality"
              [] stage = "code_quality" -> "security"
              [] stage = "security" -> "architecture"
              [] stage = "architecture" -> "performance"
              [] stage = "performance" -> "build"
              [] stage = "build" -> "ai_insights"
              [] stage = "ai_insights" -> "scores"
    IN  IF next = "scores" \/ Runs(next) THEN next
        ELSE StageAfter(next, type, config)

(***************************************************************************)
(* State                                                                   *)
(***************************************************************************)
VARIABLES
    db,          \* table repository_analyses: analysis id -> row
    started,     \* the analysis ids start_analysis has returned, in order
    task,        \* id -> where the background task run_repository_analysis is
    analyzer,    \* id -> the task's RepositoryAnalyzer instance
    temp_dirs,   \* ids whose temp directory exists on disk
    rmtree_calls,  \* history: id -> number of shutil.rmtree calls on its directory
    observed,    \* history: id -> the progress_percentage a client last received
    last_stage_cancels,  \* history: ids whose cancel was accepted during the last stage
    response     \* the last HTTP response of GET /{analysis_id} or DELETE /{analysis_id}

dbvars == <<db, started, task, analyzer, temp_dirs, rmtree_calls, observed,
            last_stage_cancels, response>>

VARIABLES
    active_analyses,  \* self.active_analyses: analysis id -> reference to its record
    heap,             \* reference -> analysis_record dict
    returned,         \* the analysis ids start_comprehensive_analysis returned, in order
    service_task,     \* task -> position and locals of _run_comprehensive_analysis
    repo_dirs,        \* tasks whose RepositoryService temp directory exists on disk
    cleanup_calls,    \* history: task -> number of shutil.rmtree calls on its directory
    polled,           \* history: analysis id -> the progress_percentage last polled
    service_reply     \* what the last get_analysis_result or delete_analysis returned

svcvars == <<active_analyses, heap, returned, service_task, repo_dirs, cleanup_calls, polled,
             service_reply>>

VARIABLE
    call         \* a call of a score function: its argument and what it returned

\* RepositoryAnalyzer.__init__
NewAnalyzer ==
    [ temp_dir            |-> FALSE,
      current_stage_index |-> 0,
      results             |-> EmptyDict,
      progress            |-> 0,
      raised              |-> FALSE,
      exception           |-> "" ]

\* no request answered yet
NoResponse ==
    [endpoint |-> "none", analysis_id |-> 0, status_was |-> "", status_code |-> 0,
     body |-> EmptyDict]

InitDb ==
    /\ db = EmptyDict
    /\ started = <<>>
    /\ task = EmptyDict
    /\ analyzer = EmptyDict
    /\ temp_dirs = {}
    /\ rmtree_calls = EmptyDict
    /\ observed = EmptyDict
    /\ last_stage_cancels = {}
    /\ response = NoResponse

(***************************************************************************)
(* Routes of app/api/routes/analysis.py                                    *)
(***************************************************************************)
\* the ids uuid.uuid4() can give a new row: any id no row has yet
FreshIds(existing) == AnalysisIds \ existing

\* POST /start: insert the row (status PENDING) and schedule the background task
start_analysis(id, type, config) ==
    /\ id \in FreshIds(DOMAIN db)
    /\ db' = Put(db, id, RepositoryAnalysis(type, config))
    /\ started' = Append(started, id)
    /\ task' = Put(task, id, "scheduled")
    /\ analyzer' = Put(analyzer, id, NewAnalyzer)
    /\ rmtree_calls' = Put(rmtree_calls, id, 0)
    /\ observed' = Put(observed, id, <<>>)
    /\ UNCHANGED <<temp_dirs, last_stage_cancels, response, svcvars, call>>

\* the progress_stages table of get_analysis_progress
progress_stages(status) ==
    CASE status = "pending" -> 0
      [] status = "running" -> 50
      [] status = "completed" -> 100
      [] status = "failed" -> 0
      [] status = "cancelled" -> 0

\* the AnalysisProgress a poll of the row returns
AnalysisProgress(row) ==
    [ status              |-> row.status,
      progress_percentage |-> progress_stages(row.status),
      error_message       |-> IF row.status = "failed" THEN row.error_log ELSE "" ]

\* GET /{analysis_id}/progress
get_analysis_progress(id) ==
    /\ id \in DOMAIN db
    /\ observed' = [observed EXCEPT ![id] = <<AnalysisProgress(db[id]).progress_percentage>>]
    /\ UNCHANGED <<db, started, task, analyzer, temp_dirs, rmtree_calls,
                 last_stage_cancels, response, svcvars, call>>

\* CancelRefused with FAILED left out of the list
CancelRefusedCompletedOnly == {"completed"}

\* the statuses cancel_analysis answers with 409 Conflict
CancelRefused == {"completed", "failed"}

\* AnalysisResult.from_orm(analysis): the fields of the response model the row fills
AnalysisResult(row) ==
    [ status                |-> row.status,
      completed_at          |-> row.completed_at,
      overall_quality_score |-> row.overall_quality_score,
      maintainability_score |-> row.maintainability_score,
      security_score        |-> row.security_score ]

\* GET /{analysis_id}: the row as an AnalysisResult, whatever its status
get_analysis_result(id) ==
    /\ id \in DOMAIN db
    /\ response' = [endpoint |-> "get_analysis_result", analysis_id |-> id,
                    status_was |-> db[id].status, status_code |-> 200,
                    body |-> AnalysisResult(db[id])]
    /\ UNCHANGED <<db, started, task, analyzer, temp_dirs, rmtree_calls, observed,
                   last_stage_cancels, svcvars, call>>

\* the responses of cancel_analysis
CancelConflict == [detail |-> "Cannot cancel completed or failed analysis"]
CancelSuccess == [message |-> "Analysis cancelled successfully"]

\* DELETE /{analysis_id}: 409 when the row is COMPLETED or FAILED, otherwise
\* the row is set CANCELLED
cancel_analysis(id) ==
    /\ id \in DOMAIN db
    /\ IF db[id].status \in CancelRefused
       THEN /\ response' = [endpoint |-> "cancel_analysis", analysis_id |-> id,
                            status_was |-> db[id].status, status_code |-> 409,
                            body |-> CancelConflict]
            /\ UNCHANGED <<db, last_stage_cancels>>
       ELSE /\ db' = [db EXCEPT ![id].status = "cancelled"]
            /\ last_stage_cancels' =
                    IF task[id] = "ai_insights_running"
                    THEN last_stage_cancels \cup {id} ELSE last_stage_cancels
            /\ response' = [endpoint |-> "cancel_analysis", analysis_id |-> id,
                            status_was |-> db[id].status, status_code |-> 200,
                            body |-> CancelSuccess]
    /\ UNCHANGED <<started, task, analyzer, temp_dirs, rmtree_calls, observed, svcvars, call>>

(***************************************************************************)
(* RepositoryAnalyzer._update_analysis_status                              *)
(***************************************************************************)
\* the row after _update_analysis_status(status, started_at, completed_at, error_log);
\* error_log is a message, "" for None
UpdateAnalysisStatus(row, status, started_at, completed_at, error_log) ==
    [row EXCEPT
        !.status = status,
        !.started_at = IF started_at THEN TRUE ELSE @,
        !.completed_at = IF completed_at THEN TRUE ELSE @,
        !.error_log = IF error_log # "" THEN error_log ELSE @]

(***************************************************************************)
(* The background task: run_repository_analysis -> analyze_repository      *)
(***************************************************************************)
\* the task starts: RepositoryAnalyzer(...) and the update to RUNNING
TaskStart(id) ==
    /\ id \in DOMAIN task
    /\ task[id] = "scheduled"
    /\ db' = [db EXCEPT ![id] = UpdateAnalysisStatus(@, "running", TRUE, FALSE, "")]
    /\ task' = [task EXCEPT ![id] = "clone"]
    /\ UNCHANGED <<started, analyzer, temp_dirs, rmtree_calls, observed,
                 last_stage_cancels, response, svcvars, call>>

\* how many collaborators of this analyzer have answered with an error so far
ErrorCount(results) ==
    Cardinality({k \in DOMAIN results : results[k] \in {ErrorMarker, EmptyDict}})

\* the environment returns an error only within the bound
Allowed(results, result) ==
    result \in {ErrorMarker, EmptyDict} => ErrorCount(results) < MaxStageErrors

\* RunStageDone as if a result holding "error" were not stored
RunStageDoneDropsErrors(a, store_key, result) ==
    [a EXCEPT
        !.results = IF store_key # "" /\ Truthy(result) /\ result # ErrorMarker
                    THEN Put(@, store_key, result) ELSE @,
        !.current_stage_index = @ + 1,
        !.progress = SumWeights(a.current_stage_index + 1)]

\* the bookkeeping of _run_stage after func returned `result`
RunStageDone(a, store_key, result) ==
    [a EXCEPT
        !.results = IF store_key # "" /\ Truthy(result)
                    THEN Put(@, store_key, result) ELSE @,
        !.current_stage_index = @ + 1,
        !.progress = SumWeights(a.current_stage_index + 1)]

\* tempfile.mkdtemp and the call of _run_stage("clone"): git clone is under way
CloneBegin(id) ==
    /\ id \in DOMAIN task
    /\ task[id] = "clone"
    /\ analyzer' = [analyzer EXCEPT ![id].temp_dir = TRUE]
    /\ temp_dirs' = temp_dirs \cup {id}
    /\ task' = [task EXCEPT ![id] = "clone_running"]
    /\ UNCHANGED <<db, started, rmtree_calls, observed,
                 last_stage_cancels, response, svcvars, call>>

\* str(e) of the exceptions the pipeline can raise
CloneError == "Failed to clone repository: GitCommandError"
SaveError == "commit failed"

\* CloneEnd as if a failed clone were logged and the pipeline went on
CloneEndSwallowed(id, ok) ==
    /\ id \in DOMAIN task
    /\ task[id] = "clone_running"
    /\ analyzer' = [analyzer EXCEPT
            ![id] = [RunStageDone(@, "", EmptyDict) EXCEPT
                        !.exception = IF ok THEN @ ELSE CloneError]]
    /\ task' = [task EXCEPT ![id] = "metadata"]
    /\ UNCHANGED <<db, started, temp_dirs, rmtree_calls, observed,
                 last_stage_cancels, response, svcvars, call>>

\* git clone returns, or raises GitCommandError (re-raised by _run_stage)
CloneEnd(id, ok) ==
    /\ id \in DOMAIN task
    /\ task[id] = "clone_running"
    /\ IF ok
       THEN /\ analyzer' = [analyzer EXCEPT ![id] = RunStageDone(@, "", EmptyDict)]
            /\ task' = [task EXCEPT ![id] = "metadata"]
       ELSE /\ analyzer' = [analyzer EXCEPT ![id].exception = CloneError]
            /\ task' = [task EXCEPT ![id] = "failed"]
    /\ UNCHANGED <<db, started, temp_dirs, rmtree_calls, observed,
                 last_stage_cancels, response, svcvars, call>>

\* what _get_repository_metadata returns: the metadata, or {} from its except
MetadataReturns == {[total_lines |-> 10], EmptyDict}

GetRepositoryMetadata(id, metadata) ==
    /\ id \in DOMAIN task
    /\ task[id] = "metadata"
    /\ metadata \in MetadataReturns
    /\ Allowed(analyzer[id].results, metadata)
    /\ analyzer' = [analyzer EXCEPT ![id].results = Put(@, "metadata", metadata)]
    /\ task' = [task EXCEPT ![id] = "dependencies"]
    /\ UNCHANGED <<db, started, temp_dirs, rmtree_calls, observed,
                 last_stage_cancels, response, svcvars, call>>

\* RunStage as if the security stage were called after the build stage
RunStageSecurityLast(id, result) ==
    /\ id \in DOMAIN task
    /\ task[id] \in StageNames \ CoroutineStages
    /\ result \in StageReturns(task[id])
    /\ Allowed(analyzer[id].results, result)
    /\ analyzer' = [analyzer EXCEPT ![id] = RunStageDone(@, task[id], result)]
    /\ task' = [task EXCEPT ![id] =
            LET next == StageAfter(@, db[id].analysis_type, db[id].analysis_config)
            IN  CASE @ = "security" -> "ai_insights"
                  [] @ = "build" /\ db[id].analysis_config.include_security -> "security"
                  [] @ \notin {"security", "build"} /\ next = "security" ->
                        StageAfter("security", db[id].analysis_type, db[id].analysis_config)
                  [] OTHER -> next]
    /\ UNCHANGED <<db, started, temp_dirs, rmtree_calls, observed,
                 last_stage_cancels, response, svcvars, call>>

\* one analyzer stage: _run_stage(name, analyzer.analyze, store_key=name)
RunStage(id, result) ==
    /\ id \in DOMAIN task
    /\ task[id] \in StageNames \ CoroutineStages
    /\ result \in StageReturns(task[id])
    /\ Allowed(analyzer[id].results, result)
    /\ analyzer' = [analyzer EXCEPT ![id] = RunStageDone(@, task[id], result)]
    /\ task' = [task EXCEPT
                    ![id] = StageAfter(@, db[id].analysis_type, db[id].analysis_config)]
    /\ UNCHANGED <<db, started, temp_dirs, rmtree_calls, observed,
                 last_stage_cancels, response, svcvars, call>>

\* _run_stage("ai_insights") awaits _generate_ai_insights
AiInsightsBegin(id) ==
    /\ id \in DOMAIN task
    /\ task[id] = "ai_insights"
    /\ task' = [task EXCEPT ![id] = "ai_insights_running"]
    /\ UNCHANGED <<db, started, analyzer, temp_dirs, rmtree_calls, observed,
                 last_stage_cancels, response, svcvars, call>>

\* _generate_ai_insights returns the insights or, from its except, {"error": ...}
AiInsightsEnd(id, result) ==
    /\ id \in DOMAIN task
    /\ task[id] = "ai_insights_running"
    /\ result \in StageReturns("ai_insights")
    /\ Allowed(analyzer[id].results, result)
    /\ analyzer' = [analyzer EXCEPT ![id] = RunStageDone(@, "ai_insights", result)]
    /\ task' = [task EXCEPT ![id] = "scores"]
    /\ UNCHANGED <<db, started, temp_dirs, rmtree_calls, observed,
                 last_stage_cancels, response, svcvars, call>>

\* self.results["scores"] = await self._calculate_overall_scores()
CalculateScores(id) ==
    /\ id \in DOMAIN task
    /\ task[id] = "scores"
    /\ analyzer' = [analyzer EXCEPT
                        ![id].results = Put(@, "scores", CalculateOverallScores(@))]
    /\ task' = [task EXCEPT ![id] = "recommendations"]
    /\ UNCHANGED <<db, started, temp_dirs, rmtree_calls, observed,
                 last_stage_cancels, response, svcvars, call>>

\* the number of entries _generate_recommendations puts in each priority list
Recommendations(results) ==
    LET security == Get(results, "security", EmptyDict)
        code_quality == Get(results, "code_quality", EmptyDict)
        dependencies == Get(results, "dependencies", EmptyDict)
        outdated_count == Get(dependencies, "outdated_count", 0)
    IN  [ critical |->
            IF Get(security, "vulnerabilities_count", 0) > 0 THEN 1 ELSE 0,
          high_priority |->
            (IF Get(code_quality, "avg_complexity", 0) > 10 THEN 1 ELSE 0)
            + (IF outdated_count > 10 THEN 1 ELSE 0),
          medium_priority |->
            IF outdated_count > 0 /\ outdated_count <= 10 THEN 1 ELSE 0 ]

\* self.results["recommendations"] = await self._generate_recommendations()
GenerateRecommendations(id) ==
    /\ id \in DOMAIN task
    /\ task[id] = "recommendations"
    /\ analyzer' = [analyzer EXCEPT
                        ![id].results = Put(@, "recommendations", Recommendations(@))]
    /\ task' = [task EXCEPT ![id] = "save"]
    /\ UNCHANGED <<db, started, temp_dirs, rmtree_calls, observed,
                 last_stage_cancels, response, svcvars, call>>

\* scores.get(key) for a nullable column
Column(scores, key) == IF key \in DOMAIN scores THEN Some(scores[key]) ELSE None

\* the row after _save_final_results committed
SaveFinalResults(row, results) ==
    LET scores == Get(results, "scores", EmptyDict)
    IN  [row EXCEPT
            !.overall_quality_score = Column(scores, "overall"),
            !.maintainability_score = Column(scores, "code_quality"),
            !.security_score = Column(scores, "security"),
            !.saved = TRUE]

\* SaveResults as if _save_final_results logged the failure without raising
SaveResultsSwallowed(id, ok) ==
    /\ id \in DOMAIN task
    /\ task[id] = "save"
    /\ db' = IF ok THEN [db EXCEPT ![id] = SaveFinalResults(@, analyzer[id].results)] ELSE db
    /\ task' = [task EXCEPT ![id] = "completed"]
    /\ analyzer' = [analyzer EXCEPT ![id].exception = IF ok THEN @ ELSE SaveError]
    /\ UNCHANGED <<started, temp_dirs, rmtree_calls, observed,
                 last_stage_cancels, response, svcvars, call>>

\* await self._save_final_results(): the commit succeeds, or raises (re-raised)
SaveResults(id, ok) ==
    /\ id \in DOMAIN task
    /\ task[id] = "save"
    /\ IF ok
       THEN /\ db' = [db EXCEPT ![id] = SaveFinalResults(@, analyzer[id].results)]
            /\ task' = [task EXCEPT ![id] = "completed"]
       ELSE /\ db' = db
            /\ task' = [task EXCEPT ![id] = "failed"]
    /\ analyzer' = [analyzer EXCEPT ![id].exception = IF ok THEN @ ELSE SaveError]
    /\ UNCHANGED <<started, temp_dirs, rmtree_calls, observed,
                 last_stage_cancels, response, svcvars, call>>

\* Complete with the status argument of the last update lost
CompleteWithoutStatus(id) ==
    /\ id \in DOMAIN task
    /\ task[id] = "completed"
    /\ db' = [db EXCEPT ![id].completed_at = TRUE]
    /\ task' = [task EXCEPT ![id] = "cleanup"]
    /\ UNCHANGED <<started, analyzer, temp_dirs, rmtree_calls, observed,
                 last_stage_cancels, response, svcvars, call>>

\* _update_analysis_status(COMPLETED, completed_at=now), then return self.results
Complete(id) ==
    /\ id \in DOMAIN task
    /\ task[id] = "completed"
    /\ db' = [db EXCEPT ![id] = UpdateAnalysisStatus(@, "completed", FALSE, TRUE, "")]
    /\ task' = [task EXCEPT ![id] = "cleanup"]
    /\ UNCHANGED <<started, analyzer, temp_dirs, rmtree_calls, observed,
                 last_stage_cancels, response, svcvars, call>>

\* Fail with the error_log argument left out
FailWithoutErrorLog(id) ==
    /\ id \in DOMAIN task
    /\ task[id] = "failed"
    /\ db' = [db EXCEPT ![id] = UpdateAnalysisStatus(@, "failed", FALSE, FALSE, "")]
    /\ analyzer' = [analyzer EXCEPT ![id].raised = TRUE]
    /\ task' = [task EXCEPT ![id] = "cleanup"]
    /\ UNCHANGED <<started, temp_dirs, rmtree_calls, observed,
                 last_stage_cancels, response, svcvars, call>>

\* Fail as if the error were logged in the row without the status FAILED
FailKeepsStatus(id) ==
    /\ id \in DOMAIN task
    /\ task[id] = "failed"
    /\ db' = [db EXCEPT ![id] = UpdateAnalysisStatus(@, @.status, FALSE, FALSE, analyzer[id].exception)]
    /\ analyzer' = [analyzer EXCEPT ![id].raised = TRUE]
    /\ task' = [task EXCEPT ![id] = "cleanup"]
    /\ UNCHANGED <<started, temp_dirs, rmtree_calls, observed,
                 last_stage_cancels, response, svcvars, call>>

\* except Exception in analyze_repository:
\* _update_analysis_status(FAILED, error_log=str(e)), then raise
Fail(id) ==
    /\ id \in DOMAIN task
    /\ task[id] = "failed"
    /\ db' = [db EXCEPT ![id] = UpdateAnalysisStatus(@, "failed", FALSE, FALSE, analyzer[id].exception)]
    /\ analyzer' = [analyzer EXCEPT ![id].raised = TRUE]
    /\ task' = [task EXCEPT ![id] = "cleanup"]
    /\ UNCHANGED <<started, temp_dirs, rmtree_calls, observed,
                 last_stage_cancels, response, svcvars, call>>

\* Cleanup as if _cleanup were called at the end of the try body, not in finally
CleanupOnSuccessOnly(id) ==
    /\ id \in DOMAIN task
    /\ task[id] = "cleanup"
    /\ IF analyzer[id].temp_dir /\ id \in temp_dirs /\ ~analyzer[id].raised
       THEN /\ temp_dirs' = temp_dirs \ {id}
            /\ rmtree_calls' = [rmtree_calls EXCEPT ![id] = @ + 1]
       ELSE UNCHANGED <<temp_dirs, rmtree_calls>>
    /\ task' = [task EXCEPT ![id] = IF analyzer[id].raised THEN "task_except" ELSE "done"]
    /\ UNCHANGED <<db, started, analyzer, observed,
                 last_stage_cancels, response, svcvars, call>>

\* finally: await self._cleanup(): rmtree of the temp directory when it exists
Cleanup(id) ==
    /\ id \in DOMAIN task
    /\ task[id] = "cleanup"
    /\ IF analyzer[id].temp_dir /\ id \in temp_dirs
       THEN /\ temp_dirs' = temp_dirs \ {id}
            /\ rmtree_calls' = [rmtree_calls EXCEPT ![id] = @ + 1]
       ELSE UNCHANGED <<temp_dirs, rmtree_calls>>
    /\ task' = [task EXCEPT ![id] = IF analyzer[id].raised THEN "task_except" ELSE "done"]
    /\ UNCHANGED <<db, started, analyzer, observed,
                 last_stage_cancels, response, svcvars, call>>

\* except Exception in run_repository_analysis: the row is set FAILED again
TaskExcept(id) ==
    /\ id \in DOMAIN task
    /\ task[id] = "task_except"
    /\ db' = [db EXCEPT ![id] = UpdateAnalysisStatus(@, "failed", FALSE, TRUE, analyzer[id].exception)]
    /\ task' = [task EXCEPT ![id] = "done"]
    /\ UNCHANGED <<started, analyzer, temp_dirs, rmtree_calls, observed,
                 last_stage_cancels, response, svcvars, call>>

NextDb ==
    \/ /\ Len(started) < MaxAnalyses
       /\ \E id \in AnalysisIds, type \in AnalysisType, config \in AnalysisConfig :
                start_analysis(id, type, config)
    \/ \E id \in AnalysisIds : get_analysis_progress(id)
    \/ \E id \in AnalysisIds : get_analysis_result(id)
    \/ \E id \in AnalysisIds : cancel_analysis(id)
    \/ \E id \in AnalysisIds : TaskStart(id)
    \/ \E id \in AnalysisIds : CloneBegin(id)
    \/ \E id \in AnalysisIds, ok \in BOOLEAN : CloneEnd(id, ok)
    \/ \E id \in AnalysisIds, metadata \in MetadataReturns :
            GetRepositoryMetadata(id, metadata)
    \/ \E id \in AnalysisIds, result \in UNION {StageReturns(n) : n \in StageNames \ {"clone"}} :
            RunStage(id, result)
    \/ \E id \in AnalysisIds : AiInsightsBegin(id)
    \/ \E id \in AnalysisIds, result \in StageReturns("ai_insights") :
            AiInsightsEnd(id, result)
    \/ \E id \in AnalysisIds : CalculateScores(id)
    \/ \E id \in AnalysisIds : GenerateRecommendations(id)
    \/ \E id \in AnalysisIds, ok \in BOOLEAN : SaveResults(id, ok)
    \/ \E id \in AnalysisIds : Complete(id)
    \/ \E id \in AnalysisIds : Fail(id)
    \/ \E id \in AnalysisIds : Cleanup(id)
    \/ \E id \in AnalysisIds : TaskExcept(id)

(***************************************************************************)
(* AnalysisService: score functions (0-100 scale)                          *)
(***************************************************************************)
\* _calculate_real_quality_score; list-valued entries are given by their length
CalculateRealQualityScore(static_results) ==
    IF ~Truthy(static_results) THEN None
    ELSE
        LET complexity == Get(static_results, "complexity", EmptyDict)
            security == Get(static_results, "security", EmptyDict)
            quality == Get(static_results, "quality", EmptyDict)
            avg_complexity == Get(complexity, "average_complexity", 0)
            complexity_penalty ==
                IF Truthy(complexity)
                THEN (IF avg_complexity > 10
                      THEN Min(30, (avg_complexity - 10) * 3) ELSE 0)
                     + Min(20, Get(complexity, "high_complexity_count", 0) * 2)
                     + Min(30, Get(complexity, "very_high_complexity_count", 0) * 5)
                ELSE 0
            security_penalty ==
                IF Truthy(security)
                THEN Min(40, Get(security, "vulnerabilities", 0) * 8) ELSE 0
            quality_penalty ==
                IF Truthy(quality)
                THEN Min(20, Get(quality, "code_smells", 0) * 2) ELSE 0
        IN  Some(Max(0, Min(100,
                100 - complexity_penalty - security_penalty - quality_penalty)))

\* _calculate_real_security_score
CalculateRealSecurityScore(static_results) ==
    IF ~Truthy(static_results) THEN None
    ELSE
        LET security == Get(static_results, "security", EmptyDict)
            vuln_count == Get(security, "vulnerabilities", 0)
        IN  IF ~Truthy(security) THEN None
            ELSE IF vuln_count = 0 THEN Some(95)
            ELSE IF vuln_count <= 2 THEN Some(80)
            ELSE IF vuln_count <= 5 THEN Some(60)
            ELSE IF vuln_count <= 10 THEN Some(35)
            ELSE Some(15)

\* _calculate_real_maintainability_score
CalculateRealMaintainabilityScore(static_results) ==
    IF ~Truthy(static_results) THEN None
    ELSE
        LET complexity == Get(static_results, "complexity", EmptyDict)
            avg_complexity == Get(complexity, "average_complexity", 0)
        IN  IF ~Truthy(complexity) THEN None
            ELSE IF avg_complexity <= 3 THEN Some(90)
            ELSE IF avg_complexity <= 6 THEN Some(75)
            ELSE IF avg_complexity <= 10 THEN Some(60)
            ELSE IF avg_complexity <= 15 THEN Some(40)
            ELSE Some(20)

\* the entries of final_results["overall_scores"] that are computed from
\* static_results alone
OverallScores(static_results) ==
    [ overall_quality_score |-> CalculateRealQualityScore(static_results),
      code_quality_score    |-> CalculateRealQualityScore(static_results),
      security_score        |-> CalculateRealSecurityScore(static_results),
      maintainability_score |-> CalculateRealMaintainabilityScore(static_results) ]

(***************************************************************************)
(* AnalysisService: the registry and one pipeline task per session         *)
(***************************************************************************)
\* number of sessions started through start_comprehensive_analysis
MaxSessions == 2

\* the values uuid.uuid4() can take in the model
SessionIds == 1..MaxSessions

\* the tasks asyncio.create_task has created, in creation order; the
\* analysis_record dict of the n-th start is heap object n
TaskIds == 1..MaxSessions

\* nothing returned yet
NoReply == [method |-> "none", analysis_id |-> 0, returns |-> EmptyDict]

InitService ==
    /\ active_analyses = EmptyDict
    /\ heap = EmptyDict
    /\ returned = <<>>
    /\ service_task = EmptyDict
    /\ repo_dirs = {}
    /\ cleanup_calls = EmptyDict
    /\ polled = EmptyDict
    /\ service_reply = NoReply

\* the analysis_record of start_comprehensive_analysis
AnalysisRecord(analysis_id) ==
    [ id            |-> analysis_id,
      status        |-> "initializing",
      progress      |-> 0,
      current_stage |-> "Initializing analysis...",
      results       |-> EmptyDict,
      completed_at  |-> FALSE,
      error         |-> FALSE,
      failed_at     |-> FALSE ]

\* the values str(uuid.uuid4()) can return: an id no session was given before
NewUuids(given) == SessionIds \ given

\* start_comprehensive_analysis as if the record were registered by the task
StartWithoutRecord(analysis_id) ==
    LET n == Len(returned) + 1
    IN  /\ analysis_id \in NewUuids({returned[k] : k \in 1..Len(returned)})
        /\ heap' = Put(heap, n, AnalysisRecord(analysis_id))
        /\ active_analyses' = active_analyses
        /\ service_task' = Put(service_task, n,
                [ pc |-> "created", analysis_id |-> analysis_id, analysis |-> 0,
                  temp_dir |-> FALSE, static_results |-> EmptyDict,
                  comprehensive_analysis |-> "" ])
        /\ returned' = Append(returned, analysis_id)
        /\ cleanup_calls' = Put(cleanup_calls, n, 0)
        /\ UNCHANGED <<repo_dirs, polled, service_reply, dbvars, call>>

\* start_comprehensive_analysis: register the record, create the task, return the id
start_comprehensive_analysis(analysis_id) ==
    LET n == Len(returned) + 1
    IN  /\ analysis_id \in NewUuids({returned[k] : k \in 1..Len(returned)})
        /\ heap' = Put(heap, n, AnalysisRecord(analysis_id))
        /\ active_analyses' = Put(active_analyses, analysis_id, n)
        /\ service_task' = Put(service_task, n,
                [ pc |-> "created", analysis_id |-> analysis_id, analysis |-> 0,
                  temp_dir |-> FALSE, static_results |-> EmptyDict,
                  comprehensive_analysis |-> "" ])
        /\ returned' = Append(returned, analysis_id)
        /\ cleanup_calls' = Put(cleanup_calls, n, 0)
        /\ UNCHANGED <<repo_dirs, polled, service_reply, dbvars, call>>

\* what AnalysisService.get_analysis_progress returns
GetAnalysisProgress(registry, records, analysis_id) ==
    IF analysis_id \notin DOMAIN registry
    THEN [error |-> "Analysis not found", status |-> "not_found"]
    ELSE LET analysis == records[registry[analysis_id]]
         IN  [ analysis_id         |-> analysis_id,
               status              |-> analysis.status,
               progress_percentage |-> analysis.progress,
               current_stage       |-> analysis.current_stage ]

\* AnalysisService.get_analysis_progress: the caller keeps the percentage of
\* a session that was found
service_get_analysis_progress(analysis_id) ==
    /\ LET progress == GetAnalysisProgress(active_analyses, heap, analysis_id)
       IN  polled' = IF progress.status = "not_found" THEN polled
                     ELSE Put(polled, analysis_id, progress.progress_percentage)
    /\ UNCHANGED <<active_analyses, heap, returned, service_task, repo_dirs, cleanup_calls,
                   service_reply, dbvars, call>>

\* Delete as if the whole registry were emptied
DeleteAll(registry, analysis_id) == EmptyDict

\* the registry after del self.active_analyses[analysis_id]
Delete(registry, analysis_id) ==
    [k \in DOMAIN registry \ {analysis_id} |-> registry[k]]

\* the error dicts and the message the service methods return
AnalysisNotFound == [error |-> "Analysis not found", status |-> "not_found"]
DeleteNotFound == [error |-> "Analysis not found"]
DeleteSuccess == [message |-> "Analysis deleted successfully"]

\* AnalysisService.delete_analysis: an error for an unknown id, otherwise the
\* id is taken out of the registry
delete_analysis(analysis_id) ==
    /\ IF analysis_id \notin DOMAIN active_analyses
       THEN /\ service_reply' = [method |-> "delete_analysis", analysis_id |-> analysis_id,
                                 returns |-> DeleteNotFound]
            /\ UNCHANGED active_analyses
       ELSE /\ active_analyses' = Delete(active_analyses, analysis_id)
            /\ service_reply' = [method |-> "delete_analysis", analysis_id |-> analysis_id,
                                 returns |-> DeleteSuccess]
    /\ UNCHANGED <<heap, returned, service_task, repo_dirs, cleanup_calls, polled, dbvars, call>>

\* GetAnalysisResult as if the status of the record were not looked at
GetAnalysisResultAnyStatus(registry, records, analysis_id) ==
    IF analysis_id \notin DOMAIN registry THEN AnalysisNotFound
    ELSE records[registry[analysis_id]].results

\* what AnalysisService.get_analysis_result returns
GetAnalysisResult(registry, records, analysis_id) ==
    IF analysis_id \notin DOMAIN registry THEN AnalysisNotFound
    ELSE LET analysis == records[registry[analysis_id]]
         IN  IF analysis.status # "completed"
             THEN [ error    |-> "Analysis not completed yet",
                    status   |-> analysis.status,
                    progress |-> analysis.progress ]
             ELSE analysis.results

\* AnalysisService.get_analysis_result
service_get_analysis_result(analysis_id) ==
    /\ service_reply' = [method |-> "get_analysis_result", analysis_id |-> analysis_id,
                         returns |-> GetAnalysisResult(active_analyses, heap, analysis_id)]
    /\ UNCHANGED <<active_analyses, heap, returned, service_task, repo_dirs, cleanup_calls,
                   polled, dbvars, call>>

\* the record after the except branch of _run_comprehensive_analysis
Failed(record) ==
    [record EXCEPT
        !.status = "failed",
        !.error = TRUE,
        !.failed_at = TRUE,
        !.results = [error |-> "error", status |-> "failed"]]

\* RepositoryService.cleanup in the finally branch: the directories left on disk
CleanupDirs(n) ==
    IF service_task[n].temp_dir /\ n \in repo_dirs THEN repo_dirs \ {n} ELSE repo_dirs

CleanupCalls(n) ==
    IF service_task[n].temp_dir /\ n \in repo_dirs
    THEN [cleanup_calls EXCEPT ![n] = @ + 1] ELSE cleanup_calls

\* an exception inside the try: except branch, then finally, and the task returns
Raise(n) ==
    /\ heap' = [heap EXCEPT ![service_task[n].analysis] = Failed(@)]
    /\ repo_dirs' = CleanupDirs(n)
    /\ cleanup_calls' = CleanupCalls(n)
    /\ service_task' = [service_task EXCEPT ![n].pc = "done"]

\* TaskRecord as if the task took the record registered last
LatestRecord(analysis_id) == Len(returned)

\* analysis = self.active_analyses[analysis_id]: the record the task works on
TaskRecord(analysis_id) == active_analyses[analysis_id]

\* the task's first step: look the record up (KeyError when it was deleted),
\* stage 1 up to the await of clone_repository, which makes its temp directory
ServiceTaskStart(n) ==
    /\ n \in DOMAIN service_task
    /\ service_task[n].pc = "created"
    /\ IF service_task[n].analysis_id \in DOMAIN active_analyses
       THEN LET ref == TaskRecord(service_task[n].analysis_id)
            IN  /\ heap' = [heap EXCEPT ![ref] =
                        [@ EXCEPT !.current_stage = "Cloning repository...",
                                  !.progress = 10,
                                  !.status = "running"]]
                /\ service_task' = [service_task EXCEPT ![n] =
                        [@ EXCEPT !.pc = "cloning", !.analysis = ref, !.temp_dir = TRUE]]
                /\ repo_dirs' = repo_dirs \cup {n}
       ELSE /\ service_task' = [service_task EXCEPT ![n].pc = "done"]
            /\ UNCHANGED <<heap, repo_dirs>>
    /\ UNCHANGED <<active_analyses, returned, cleanup_calls, polled,
                   service_reply, dbvars, call>>

\* ServiceCloneReturn with the progress of stage 2 written as 5 instead of 25
ServiceCloneReturnLowProgress(n, ok) ==
    /\ n \in DOMAIN service_task
    /\ service_task[n].pc = "cloning"
    /\ IF ok
       THEN /\ heap' = [heap EXCEPT ![service_task[n].analysis] =
                        [@ EXCEPT !.current_stage = "Analyzing code files...",
                                  !.progress = 5]]
            /\ service_task' = [service_task EXCEPT ![n].pc = "analyzing_files"]
            /\ UNCHANGED <<repo_dirs, cleanup_calls>>
       ELSE Raise(n)
    /\ UNCHANGED <<active_analyses, returned, polled, service_reply, dbvars, call>>

\* clone_repository returned: "success", or an error status (the task raises)
ServiceCloneReturn(n, ok) ==
    /\ n \in DOMAIN service_task
    /\ service_task[n].pc = "cloning"
    /\ IF ok
       THEN /\ heap' = [heap EXCEPT ![service_task[n].analysis] =
                        [@ EXCEPT !.current_stage = "Analyzing code files...",
                                  !.progress = 25]]
            /\ service_task' = [service_task EXCEPT ![n].pc = "analyzing_files"]
            /\ UNCHANGED <<repo_dirs, cleanup_calls>>
       ELSE Raise(n)
    /\ UNCHANGED <<active_analyses, returned, polled, service_reply, dbvars, call>>

\* analyze_code_files returned the files, or {"error": ...} (the task raises)
ServiceFileAnalysisReturn(n, ok) ==
    /\ n \in DOMAIN service_task
    /\ service_task[n].pc = "analyzing_files"
    /\ IF ok
       THEN /\ heap' = [heap EXCEPT ![service_task[n].analysis] =
                        [@ EXCEPT !.current_stage = "Running static analysis tools...",
                                  !.progress = 40]]
            /\ service_task' = [service_task EXCEPT ![n].pc = "static_analysis"]
            /\ UNCHANGED <<repo_dirs, cleanup_calls>>
       ELSE Raise(n)
    /\ UNCHANGED <<active_analyses, returned, polled, service_reply, dbvars, call>>

\* what run_static_analysis returns: tool data, every tool's error marker,
\* or {"error": ...} from its own except branch
StaticReturns ==
    { [ complexity   |-> [average_complexity |-> 12],
        security     |-> [vulnerabilities |-> 1],
        quality      |-> [code_smells |-> 2],
        dependencies |-> [outdated_count |-> 0] ],
      [ complexity   |-> ErrorMarker,
        security     |-> ErrorMarker,
        quality      |-> ErrorMarker,
        dependencies |-> ErrorMarker ],
      ErrorMarker }

\* ServiceStaticReturn as if the task stored its record under its id again
ServiceStaticReturnRegisters(n, static_results) ==
    /\ n \in DOMAIN service_task
    /\ service_task[n].pc = "static_analysis"
    /\ static_results \in StaticReturns
    /\ heap' = [heap EXCEPT ![service_task[n].analysis] =
                [@ EXCEPT !.current_stage = "AI performing comprehensive analysis...",
                          !.progress = 55]]
    /\ service_task' = [service_task EXCEPT
                ![n] = [@ EXCEPT !.pc = "ai_analysis", !.static_results = static_results]]
    /\ active_analyses' = Put(active_analyses, service_task[n].analysis_id,
                              service_task[n].analysis)
    /\ UNCHANGED <<returned, repo_dirs, cleanup_calls, polled,
                   service_reply, dbvars, call>>

\* run_static_analysis returned (it never raises after the clone): stage 4 begins
ServiceStaticReturn(n, static_results) ==
    /\ n \in DOMAIN service_task
    /\ service_task[n].pc = "static_analysis"
    /\ static_results \in StaticReturns
    /\ heap' = [heap EXCEPT ![service_task[n].analysis] =
                [@ EXCEPT !.current_stage = "AI performing comprehensive analysis...",
                          !.progress = 55]]
    /\ service_task' = [service_task EXCEPT
                ![n] = [@ EXCEPT !.pc = "ai_analysis", !.static_results = static_results]]
    /\ UNCHANGED <<active_analyses, returned, repo_dirs, cleanup_calls, polled,
                   service_reply, dbvars, call>>

\* what analyze_repository_comprehensive hands back: the parsed answer of the
\* model, well-formed or with a section that is not a dict, or its fallback
\* analysis (after an exception of the call, an unparsable or an error answer)
AiReturns == {"analysis", "malformed", "fallback"}

\* final_results as stored in analysis["results"]
FinalResults(static_results, comprehensive_analysis) ==
    [ status                |-> "completed",
      overall_quality_score |-> CalculateRealQualityScore(static_results),
      overall_scores        |-> OverallScores(static_results),
      ai_insights           |-> comprehensive_analysis ]

\* Completed as if the task stopped after storing the status
CompletedWithoutResults(record, static_results, comprehensive_analysis) ==
    [record EXCEPT
        !.current_stage = "Analysis completed",
        !.progress = 100,
        !.status = "completed",
        !.completed_at = TRUE]

\* the record after lines 191-275 ran to the end
Completed(record, static_results, comprehensive_analysis) ==
    [record EXCEPT
        !.current_stage = "Analysis completed",
        !.progress = 100,
        !.status = "completed",
        !.completed_at = TRUE,
        !.results = FinalResults(static_results, comprehensive_analysis)]

\* the record when building final_results raises after "completed" was stored
CompletedThenFailed(record) ==
    Failed([record EXCEPT
        !.current_stage = "Analysis completed",
        !.progress = 100,
        !.completed_at = TRUE])

\* AfterAi as if the fallback analysis were treated as a failure of the run
AfterAiFallbackFails(record, static_results, comprehensive_analysis) ==
    IF comprehensive_analysis \in {"malformed", "fallback"}
    THEN CompletedThenFailed(record)
    ELSE Completed(record, static_results, comprehensive_analysis)

\* the record after lines 190-287: building final_results raises on a
\* section that is not a dict, and the except branch runs
AfterAi(record, static_results, comprehensive_analysis) ==
    IF comprehensive_analysis = "malformed"
    THEN CompletedThenFailed(record)
    ELSE Completed(record, static_results, comprehensive_analysis)

\* the AI call returned: finalisation, the except branch if anything raises,
\* and the finally branch; there is no await on the way
ServiceAiReturn(n, comprehensive_analysis) ==
    /\ n \in DOMAIN service_task
    /\ service_task[n].pc = "ai_analysis"
    /\ comprehensive_analysis \in AiReturns
    /\ heap' = [heap EXCEPT ![service_task[n].analysis] =
                    AfterAi(@, service_task[n].static_results, comprehensive_analysis)]
    /\ repo_dirs' = CleanupDirs(n)
    /\ cleanup_calls' = CleanupCalls(n)
    /\ service_task' = [service_task EXCEPT
            ![n] = [@ EXCEPT !.pc = "done",
                             !.comprehensive_analysis = comprehensive_analysis]]
    /\ UNCHANGED <<active_analyses, returned, polled, service_reply, dbvars, call>>

NextService ==
    \/ /\ Len(returned) < MaxSessions
       /\ \E analysis_id \in SessionIds : start_comprehensive_analysis(analysis_id)
    \/ \E analysis_id \in SessionIds : service_get_analysis_progress(analysis_id)
    \/ \E analysis_id \in SessionIds : service_get_analysis_result(analysis_id)
    \/ \E analysis_id \in SessionIds : delete_analysis(analysis_id)
    \/ \E n \in TaskIds : ServiceTaskStart(n)
    \/ \E n \in TaskIds, ok \in BOOLEAN : ServiceCloneReturn(n, ok)
    \/ \E n \in TaskIds, ok \in BOOLEAN : ServiceFileAnalysisReturn(n, ok)
    \/ \E n \in TaskIds, static_results \in StaticReturns :
            ServiceStaticReturn(n, static_results)
    \/ \E n \in TaskIds, comprehensive_analysis \in AiReturns :
            ServiceAiReturn(n, comprehensive_analysis)

(***************************************************************************)
(* The score functions applied to bounded arguments                        *)
(***************************************************************************)
\* largest count (files, issues, dependencies) an analyzer result carries
MaxCount == 2
\* a count of findings large enough to take a score to the end of its scale
ManyCount == 20

\* no score function is called
NoCall ==
    [fn |-> "none", arg |-> EmptyDict, returned |-> FALSE, raised |-> FALSE,
     result |-> EmptyDict]

\* what self.results holds under a scored key: nothing, an error marker
\* (truthy, without the metrics), or the analyzer's metrics
ResultsOf(key) ==
    CASE key = "code_quality" ->
            {ErrorMarker} \cup
            {[avg_complexity |-> c, duplication_percentage |-> d] :
                c \in {0, 9, 40}, d \in {0, 20}}
      [] key = "security" ->
            {ErrorMarker} \cup
            {[vulnerabilities_count |-> v] : v \in 0..MaxCount \cup {ManyCount}}
      [] key = "architecture" ->
            {ErrorMarker, [modules |-> 1]} \cup
            {[design_patterns |-> p, violations |-> v] :
                p \in {0, MaxCount, ManyCount}, v \in {0, ManyCount}}
      [] key = "dependencies" ->
            {ErrorMarker} \cup
            {[total_count |-> t, outdated_count |-> o] :
                t \in {0, 1, MaxCount}, o \in {0, 1, ManyCount}}

\* the arguments of _calculate_overall_scores: any subset of the scored keys
ResultsArgs ==
    UNION { [present -> UNION {ResultsOf(k) : k \in present}] : present \in SUBSET ScoredKeys }

WellFormed(results) == \A k \in DOMAIN results : results[k] \in ResultsOf(k)

\* the arguments of _calculate_real_quality_score and of the other score
\* functions of AnalysisService
StaticArgs ==
    {EmptyDict} \cup StaticReturns \cup
    {[ complexity |-> c, security |-> sec, quality |-> [code_smells |-> 0],
       dependencies |-> [outdated_count |-> 0] ] :
        c \in {EmptyDict, ErrorMarker, [average_complexity |-> 5]},
        sec \in {EmptyDict, ErrorMarker, [vulnerabilities |-> 1]}} \cup
    {[ complexity |-> [average_complexity |-> a, very_high_complexity_count |-> h],
       security   |-> [vulnerabilities |-> v],
       quality    |-> [code_smells |-> q] ] :
        a \in {5, 12, 30}, h \in 0..MaxCount, v \in {0, MaxCount, 6}, q \in {0, 12}}

InitScores ==
    call \in {[fn |-> "_calculate_overall_scores", arg |-> r,
               returned |-> FALSE, raised |-> FALSE, result |-> EmptyDict] :
                    r \in {x \in ResultsArgs : WellFormed(x)}}
         \cup {[fn |-> "_calculate_real_quality_score", arg |-> st,
                 returned |-> FALSE, raised |-> FALSE, result |-> EmptyDict] :
                    st \in StaticArgs}
         \cup {[fn |-> "overall_scores", arg |-> st,
                 returned |-> FALSE, raised |-> FALSE, result |-> EmptyDict] :
                    st \in StaticArgs}

\* RepositoryAnalyzer._calculate_overall_scores() with self.results = call.arg;
\* the function has no raise and catches every exception, so it always returns
CallCalculateOverallScores ==
    /\ call.fn = "_calculate_overall_scores"
    /\ ~call.returned
    /\ call' = [call EXCEPT !.returned = TRUE, !.result = CalculateOverallScores(call.arg)]
    /\ UNCHANGED <<dbvars, svcvars>>

\* AnalysisService._calculate_real_quality_score(call.arg); it always returns as well
CallCalculateRealQualityScore ==
    /\ call.fn = "_calculate_real_quality_score"
    /\ ~call.returned
    /\ call' = [call EXCEPT !.returned = TRUE,
                            !.result = CalculateRealQualityScore(call.arg)]
    /\ UNCHANGED <<dbvars, svcvars>>

\* the "overall_scores" entry of final_results built from call.arg
CallOverallScores ==
    /\ call.fn = "overall_scores"
    /\ ~call.returned
    /\ call' = [call EXCEPT !.returned = TRUE, !.result = OverallScores(call.arg)]
    /\ UNCHANGED <<dbvars, svcvars>>

NextScores ==
    \/ CallCalculateOverallScores
    \/ CallCalculateRealQualityScore
    \/ CallOverallScores

(***************************************************************************)
(* Specifications                                                          *)
(***************************************************************************)
vars == <<dbvars, svcvars, call>>

\* the database-backed orchestrator (routes/analysis.py, RepositoryAnalyzer)
Init == InitDb /\ InitService /\ call = NoCall

Next == NextDb

Spec == Init /\ [][Next]_vars

\* the steps the background task of an analysis takes by itself once the
\* event loop runs it; the return of git clone and of the AI service, which
\* the task awaits with no timeout, are steps of those collaborators
TaskStep(id) ==
    \/ TaskStart(id)
    \/ CloneBegin(id)
    \/ \E metadata \in MetadataReturns : GetRepositoryMetadata(id, metadata)
    \/ \E result \in UNION {StageReturns(n) : n \in StageNames \ {"clone"}} :
            RunStage(id, result)
    \/ AiInsightsBegin(id)
    \/ CalculateScores(id)
    \/ GenerateRecommendations(id)
    \/ \E ok \in BOOLEAN : SaveResults(id, ok)
    \/ Complete(id)
    \/ Fail(id)
    \/ Cleanup(id)
    \/ TaskExcept(id)

\* the database-backed orchestrator with its scheduling: the event loop
\* runs a task that is ready; nothing makes a collaborator answer
SpecLive == Init /\ [][Next]_vars /\ \A id \in AnalysisIds : WF_vars(TaskStep(id))

\* AnalysisService
SpecService == Init /\ [][NextService]_vars

\* the score functions
InitScoresOnly == InitDb /\ InitService /\ InitScores

SpecScores == InitScoresOnly /\ [][NextScores]_vars

(***************************************************************************)
(* Properties                                                              *)
(***************************************************************************)
Terminal == {"completed", "failed", "cancelled"}

C2_CancelInLastStageWins ==
    \A id \in DOMAIN task :
        (task[id] = "done" /\ id \in last_stage_cancels) =>
            /\ db[id].status = "cancelled"
            /\ db[id].overall_quality_score = None

\* C3: the overall score is the weighted sum of the sub-scores that are
\* present divided by the sum of their weights; an absent sub-score adds to
\* neither and no default stands in for it.  (SpecScores)
C3_RenormalisedOverPresent ==
    (call.fn = "_calculate_overall_scores" /\ call.returned
        /\ "overall" \in DOMAIN call.result) =>
        LET present == DOMAIN call.result \ {"overall"}
            WeightedSum == SumOver([k \in present |-> call.result[k] * weights[k]], present)
            WeightSum == SumOver([k \in present |-> weights[k]], present)
        IN  call.result["overall"] = RoundHalfEven(WeightedSum, WeightSum)

\* nothing under the scored keys of self.results, or no tool data at all in
\* static_results
NoStageResult ==
    CASE call.fn = "_calculate_overall_scores" ->
            \A k \in ScoredKeys : ~Truthy(Get(call.arg, k, EmptyDict))
      [] call.fn = "_calculate_real_quality_score" ->
            \/ ~Truthy(call.arg)
            \/ call.arg = ErrorMarker
            \/ \A k \in DOMAIN call.arg : call.arg[k] = ErrorMarker
      [] OTHER -> FALSE

\* C4: when every stage result is absent the aggregation raises; it never
\* returns a zero, a default score or an empty score set.  (SpecScores)
C4_RaisesWhenAllAbsent ==
    (call.returned /\ NoStageResult) => call.raised

ServiceRunning == {"initializing", "running"}

\* C6: the progress a poll returns for a session that has not reached a
\* terminal status is never lower than what the previous poll of that session
\* returned.  (SpecService)
C6_PolledProgressMonotone ==
    [][\A id \in DOMAIN polled :
            (/\ id \in DOMAIN polled'
             /\ id \in DOMAIN active_analyses
             /\ heap[active_analyses[id]].status \in ServiceRunning)
            => polled'[id] >= polled[id]]_vars

\* a poll saw the progress of stage 4 after an earlier state had less
C6_Witness ==
    \E id \in DOMAIN polled :
        /\ id \in DOMAIN active_analyses
        /\ polled[id] = 55
        /\ heap[active_analyses[id]].status = "running"

\* C7: an analysis in which every stage that ran succeeded has progress 100
\* when it becomes COMPLETED, whatever its analysis type and include_*
\* switches.  (Spec)
C7_FullProgressAtCompletion ==
    \A id \in DOMAIN task :
        (/\ task[id] \in {"cleanup", "done"}
         /\ ~analyzer[id].raised
         /\ ErrorCount(analyzer[id].results) = 0
         /\ db[id].status = "completed")
        => analyzer[id].progress = 100

\* C8: once the status of a row is COMPLETED, FAILED or CANCELLED no later
\* step changes any field of the row.  (Spec)
C8_TerminalRowFrozen ==
    [][\A id \in DOMAIN db :
            db[id].status \in Terminal => db'[id] = db[id]]_vars

\* position of a status in the order PENDING, RUNNING, terminal
StatusRank(status) ==
    CASE status = "pending" -> 0
      [] status = "running" -> 1
      [] OTHER -> 2

\* C9: the status only moves forward in the order PENDING, RUNNING,
\* terminal; a terminal status is never set back to RUNNING and CANCELLED is
\* only written over PENDING or RUNNING.  (Spec)
C9_StatusMovesForward ==
    [][\A id \in DOMAIN db :
            /\ StatusRank(db'[id].status) >= StatusRank(db[id].status)
            /\ (db'[id].status = "cancelled" /\ db[id].status # "cancelled")
                    => db[id].status \in {"pending", "running"}]_vars

Distinct(seq) ==
    \A i, j \in 1..Len(seq) : i # j => seq[i] # seq[j]

\* C10: the ids of the sessions started are pairwise distinct, a step of one
\* session's task works on the record registered under its own id and leaves
\* every other record as it was, and the score of a completed session is
\* computed from the static results of its own task.  (SpecService)
C10_SessionsIsolated ==
    [][/\ Distinct(returned')
       /\ \A n \in DOMAIN service_task :
            service_task'[n] # service_task[n] =>
                LET ref == service_task'[n].analysis
                IN  /\ \A r \in DOMAIN heap : r # ref => heap'[r] = heap[r]
                    /\ ref # 0 =>
                        /\ heap'[ref].id = service_task[n].analysis_id
                        /\ (service_task'[n].pc = "done"
                                /\ heap'[ref].status = "completed") =>
                            heap'[ref].results.overall_quality_score =
                                CalculateRealQualityScore(service_task'[n].static_results)]_vars

\* two sessions ran side by side and ended differently
C10_Witness ==
    /\ Len(returned) = MaxSessions
    /\ \A n \in DOMAIN service_task : service_task[n].pc = "done"
    /\ \E m, n \in DOMAIN heap :
        /\ heap[m].status = "completed"
        /\ heap[n].status = "failed"

\* C11: GET /{analysis_id} of an existing row whose status is not COMPLETED
\* is answered with an error and no result payload.  (Spec)
C11_NotReadyUnlessCompleted ==
    (response.endpoint = "get_analysis_result" /\ response.status_was # "completed")
        => (response.status_code # 200 /\ response.body = EmptyDict)

C14_CompletedAtOnce ==
    [][\A id \in DOMAIN db :
        /\ db'[id].status \in Terminal => db'[id].completed_at
        /\ db[id].status \in Terminal => db'[id].completed_at = db[id].completed_at]_vars

\* the task got as far as the final save
ReachedSave(id) == "recommendations" \in DOMAIN analyzer[id].results

C18_NoStageStartsAfterCancel ==
    [][\A id \in DOMAIN db :
        (db[id].status = "cancelled" /\ task[id] \in StageNames)
            => task'[id] \in {task[id], "cleanup"}]_vars

\* the positions of the task after the except branch of analyze_repository
AfterFail == {"cleanup", "task_except", "done"}

\* C19: when the required stage (clone) fails, no later stage runs, the row
\* becomes FAILED with the failing stage and the underlying error in
\* error_log, and the cleanup runs.  (Spec)
C19_RequiredStageFailure ==
    \A id \in DOMAIN task :
        analyzer[id].exception = CloneError =>
            /\ task[id] \in {"failed"} \cup AfterFail
            /\ analyzer[id].current_stage_index = 0
            /\ analyzer[id].results = EmptyDict
            /\ task[id] \in AfterFail =>
                    /\ db[id].status = "failed"
                    /\ db[id].error_log = CloneError
            /\ task[id] \in {"task_except", "done"} =>
                    /\ id \notin temp_dirs
                    /\ rmtree_calls[id] = 1

\* the clone failed and the task has returned
C19_Witness ==
    \E id \in DOMAIN task :
        /\ task[id] = "done"
        /\ analyzer[id].exception = CloneError
        /\ db[id].status = "failed"
        /\ rmtree_calls[id] = 1

\* the store_key of the stage the task is in
StoreKey(position) ==
    IF position = "ai_insights_running" THEN "ai_insights" ELSE position

\* C20: a stage other than the clone that fails leaves its error marker in
\* its own slot of the results, and the task goes on with the next stage;
\* the analysis can still end COMPLETED.  (Spec)
C20_NonRequiredStageFailure ==
    [][\A id \in DOMAIN task :
        LET key == StoreKey(task[id])
        IN  (/\ key \in StageNames \ {"clone"}
             /\ analyzer'[id].current_stage_index > analyzer[id].current_stage_index)
            => /\ key \in DOMAIN analyzer'[id].results
               /\ analyzer'[id].results[key] \in StageReturns(key)
               /\ task'[id] =
                    IF key = "ai_insights" THEN "scores"
                    ELSE StageAfter(key, db[id].analysis_type, db[id].analysis_config)]_vars

\* an analysis with an error marker in a stage's slot that ended COMPLETED
C20_Witness ==
    \E id \in DOMAIN task :
        /\ task[id] = "done"
        /\ db[id].status = "completed"
        /\ \E key \in StageNames \cap DOMAIN analyzer[id].results :
                analyzer[id].results[key] = ErrorMarker
        /\ "overall" \in DOMAIN analyzer[id].results["scores"]

\* C12 as stated: get_analysis_result of a FAILED session returns the stage
\* results collected before the failure together with the error
\* information.  (SpecService)
C12_FailedReturnsPartialResults ==
    (/\ service_reply.method = "get_analysis_result"
     /\ "status" \in DOMAIN service_reply.returns
     /\ service_reply.returns.status = "failed")
    => /\ "results" \in DOMAIN service_reply.returns
       /\ "error" \in DOMAIN service_reply.returns

\* C12 amended: get_analysis_result of a FAILED session returns only the
\* "not completed yet" error with the status and the progress reached, no
\* stage results; the results kept in a FAILED record are the error
\* information alone.  (SpecService)
C12_FailedReturnsNotCompleted ==
    /\ (/\ service_reply.method = "get_analysis_result"
        /\ "status" \in DOMAIN service_reply.returns
        /\ service_reply.returns.status = "failed")
       => /\ DOMAIN service_reply.returns = {"error", "status", "progress"}
          /\ service_reply.returns.error = "Analysis not completed yet"
          /\ service_reply.returns.progress \in {10, 25, 100}
    /\ \A ref \in DOMAIN heap :
            heap[ref].status = "failed" =>
                /\ heap[ref].error
                /\ heap[ref].results = [error |-> "error", status |-> "failed"]

\* the result of a session that failed after its static analysis was asked for
C12_Witness ==
    /\ service_reply.method = "get_analysis_result"
    /\ service_reply.analysis_id \in DOMAIN active_analyses
    /\ service_reply.returns =
            [error |-> "Analysis not completed yet", status |-> "failed", progress |-> 100]
    /\ \E n \in DOMAIN service_task :
            /\ service_task[n].analysis_id = service_reply.analysis_id
            /\ Truthy(service_task[n].static_results)

\* C15: delete_analysis of an id that is not registered returns the
\* not-found error and changes nothing; of a registered id it removes that
\* entry alone and changes no record; no other step takes an entry out of
\* the registry.  (SpecService)
C15_DeleteFrame ==
    [][/\ \A id \in DOMAIN active_analyses :
            id \notin DOMAIN active_analyses' =>
                /\ service_reply' = [method |-> "delete_analysis", analysis_id |-> id,
                                     returns |-> DeleteSuccess]
                /\ active_analyses' = [k \in DOMAIN active_analyses \ {id} |->
                                            active_analyses[k]]
                /\ UNCHANGED <<heap, returned, service_task, repo_dirs>>
       /\ (service_reply' # service_reply /\ service_reply'.method = "delete_analysis") =>
            IF service_reply'.analysis_id \in DOMAIN active_analyses
            THEN /\ service_reply'.returns = DeleteSuccess
                 /\ service_reply'.analysis_id \notin DOMAIN active_analyses'
            ELSE /\ service_reply'.returns = DeleteNotFound
                 /\ UNCHANGED <<active_analyses, heap, returned, service_task, repo_dirs>>]_vars

\* one of two registered sessions was deleted after its task had finished,
\* the other is still registered
C15_Witness ==
    /\ Len(returned) = MaxSessions
    /\ service_reply.method = "delete_analysis"
    /\ service_reply.returns = DeleteSuccess
    /\ Cardinality(DOMAIN active_analyses) = MaxSessions - 1
    /\ \E n \in DOMAIN service_task :
            /\ service_task[n].analysis_id = service_reply.analysis_id
            /\ service_task[n].pc = "done"

C21_FetchFailureAbortsPipeline ==
    \A id \in DOMAIN task :
        analyzer[id].exception = CloneError =>
            /\ task[id] \in {"failed", "cleanup", "task_except", "done"}
            /\ analyzer[id].current_stage_index = 0
            /\ analyzer[id].results = EmptyDict
            /\ ~db[id].saved
            /\ task[id] # "failed" =>
                    /\ db[id].status = "failed"
                    /\ db[id].error_log = CloneError

\* the task of an analysis whose clone failed has returned
C21_Witness ==
    \E id \in DOMAIN task :
        /\ task[id] = "done"
        /\ analyzer[id].exception = CloneError
        /\ db[id].status = "failed"
        /\ id \notin temp_dirs

\* the place of a stage in the declared order
StagePosition(name) == CHOOSE n \in 1..Len(stages) : stages[n].name = name

\* the stage a task is running at a position, "" between stages
StageInProgress(position) ==
    CASE position \in {"clone", "clone_running"} -> "clone"
      [] position = "ai_insights_running" -> "ai_insights"
      [] position \in StageNames -> position
      [] OTHER -> ""

C23_EventuallyTerminal ==
    \A id \in AnalysisIds :
        (id \in DOMAIN db) ~> (id \in DOMAIN db /\ db[id].status \in Terminal)

\* C24: when a stage completes, the progress computed for the analysis is
\* the sum of the weights of the stages that have completed in it so far
\* (the progress before plus the weight of the stage just completed) and
\* lies in 0..100, also when stages are left out.  (Spec)
C24_ProgressIsCompletedWeight ==
    [][\A id \in DOMAIN task :
        analyzer'[id].current_stage_index # analyzer[id].current_stage_index =>
            /\ analyzer'[id].progress =
                    analyzer[id].progress
                        + stages[StagePosition(StageInProgress(task[id]))].weight
            /\ analyzer'[id].progress \in 0..100]_vars

\* C25: a row carries an error_log only while its status is FAILED, and a
\* progress poll shows an error message only for a FAILED row.  (Spec)
C25_ErrorOnlyWhenFailed ==
    \A id \in DOMAIN db :
        /\ db[id].error_log # "" => db[id].status = "failed"
        /\ AnalysisProgress(db[id]).error_message # "" =>
                /\ db[id].status = "failed"
                /\ AnalysisProgress(db[id]).error_message = db[id].error_log

\* a failed analysis was polled after its task returned, a cancel having
\* been refused
C25_Witness ==
    \E id \in DOMAIN db :
        /\ task[id] = "done"
        /\ db[id].error_log = SaveError
        /\ AnalysisProgress(db[id]).error_message = SaveError
        /\ observed[id] = <<0>>
        /\ response.endpoint = "cancel_analysis"
        /\ response.status_code = 409
        /\ response.status_was = "failed"

\* a tool of run_static_analysis gave no data: the static analysis as a
\* whole failed, or the tool's entry is missing, empty or an error marker
NoData(static_results, tool) ==
    \/ ~Truthy(static_results)
    \/ tool \notin DOMAIN static_results
    \/ static_results[tool] \in {EmptyDict, ErrorMarker}

\* C26: an entry of overall_scores is None whenever the tool it is computed
\* from gave no data: the security score without security data, the
\* maintainability score without complexity data, the quality scores when
\* none of their three tools gave data.  (SpecScores)
C26_NoFabricatedScore ==
    (call.fn = "overall_scores" /\ call.returned) =>
        /\ NoData(call.arg, "security") => call.result.security_score = None
        /\ NoData(call.arg, "complexity") => call.result.maintainability_score = None
        /\ (\A tool \in {"complexity", "security", "quality"} : NoData(call.arg, tool)) =>
                /\ call.result.overall_quality_score = None
                /\ call.result.code_quality_score = None

\* the tasks that took their record and whose session is no longer registered
Detached(registry) ==
    {n \in DOMAIN service_task :
        /\ service_task[n].analysis # 0
        /\ service_task[n].analysis_id \notin DOMAIN registry}

C28_CompletedHasResults ==
    /\ \A n \in DOMAIN service_task :
            (service_task[n].analysis # 0
                /\ heap[service_task[n].analysis].status = "completed") =>
                /\ service_task[n].pc = "done"
                /\ heap[service_task[n].analysis].results =
                        FinalResults(service_task[n].static_results,
                                     service_task[n].comprehensive_analysis)
    /\ \A ref \in DOMAIN heap :
            heap[ref].status = "completed" =>
                /\ "overall_scores" \in DOMAIN heap[ref].results
                /\ heap[ref].results.status = "completed"
    /\ (/\ service_reply.method = "get_analysis_result"
        /\ "error" \notin DOMAIN service_reply.returns)
       => /\ "overall_scores" \in DOMAIN service_reply.returns
          /\ service_reply.returns.status = "completed"

\* get_analysis_result returned the payload of a completed session
C28_Witness ==
    /\ service_reply.method = "get_analysis_result"
    /\ service_reply.analysis_id \in DOMAIN active_analyses
    /\ heap[active_analyses[service_reply.analysis_id]].status = "completed"
    /\ service_reply.returns = heap[active_analyses[service_reply.analysis_id]].results
    /\ service_reply.returns.overall_scores.security_score = Some(80)

\* C29: when start_comprehensive_analysis returns an id, the session is
\* registered with status "initializing" and progress 0 and its task has
\* not taken a step; from then on a progress poll finds the session in
\* every state, up to the step that deletes it.  (SpecService)
C29_RegisteredBeforeStartReturns ==
    [][/\ Len(returned') > Len(returned) =>
            LET id == returned'[Len(returned')]
                progress == GetAnalysisProgress(active_analyses', heap', id)
            IN  /\ progress.status = "initializing"
                /\ progress.progress_percentage = 0
                /\ \A n \in DOMAIN service_task' :
                        service_task'[n].analysis_id = id => service_task'[n].pc = "created"
       /\ \A k \in 1..Len(returned) :
            (/\ returned[k] \in DOMAIN active_analyses
             /\ ~(/\ service_reply' # service_reply
                  /\ service_reply' = [method |-> "delete_analysis",
                                       analysis_id |-> returned[k],
                                       returns |-> DeleteSuccess]))
            => GetAnalysisProgress(active_analyses', heap', returned[k]).status
                    \in {"initializing", "running", "completed", "failed"}]_vars

\* the second session was polled after start returned and before its task ran
C29_Witness ==
    /\ Len(returned) = MaxSessions
    /\ \A k \in 1..Len(returned) : returned[k] \in DOMAIN active_analyses
    /\ LET id == returned[MaxSessions]
       IN  /\ service_task[MaxSessions].pc = "created"
           /\ GetAnalysisProgress(active_analyses, heap, id).status = "initializing"
           /\ id \in DOMAIN polled
           /\ polled[id] = 0

\* C30: every score _calculate_overall_scores returns, the sub-scores and
\* the overall score, lies between 1.0 and 6.0, whatever the metrics are
\* and whichever of the four scored results are present.  (SpecScores)
C30_ScoresWithinScale ==
    (call.fn = "_calculate_overall_scores" /\ call.returned) =>
        /\ \A key \in DOMAIN call.result : call.result[key] \in ScoreMin..ScoreMax
        /\ DOMAIN call.result \subseteq ScoredKeys \cup {"overall"}
        /\ Truthy(call.result) => "overall" \in DOMAIN call.result

\* scores at both ends of the scale came out of one call
C30_Witness ==
    /\ call.fn = "_calculate_overall_scores"
    /\ call.returned
    /\ DOMAIN call.result = ScoredKeys \cup {"overall"}
    /\ call.result["security"] = ScoreMin
    /\ call.result["dependencies"] = ScoreMin
    /\ call.result["architecture"] = ScoreMax
    /\ call.arg["architecture"].design_patterns = ManyCount

====
